---- MODULE Spec2Model ----
(***************************************************************************)
(* futures-test-abort (src/src/lib.rs): the three futures Abort, Never and *)
(* After, polled by a cooperative executor.                                *)
(*                                                                         *)
(* A future is a record whose "type" field names the struct; the poll      *)
(* methods are operators from the future's state to                        *)
(*   fut   : the state after the poll,                                     *)
(*   out   : what the poll returned (Pending, Ready(v), Ok(v), Err(n)) or  *)
(*           Panic when the poll unwinds,                                  *)
(*   wakes : how often cx.waker().wake_by_ref() ran during the poll,       *)
(*   own   : how many of those wake-ups the polled struct made itself,     *)
(*   fwd   : how many polls it forwarded to the future it wraps.           *)
(***************************************************************************)
EXTENDS Integers, Sequences, FiniteSets, TLC

\* ------------------------------------------------------------- bounds ----
\* usize is modelled UsizeBits wide; max_polls ranges over all of it.
UsizeBits == 3
\* Polls the caller may still make beyond UsizeMax + 1.
ExtraPolls == 2
\* The generic inner future completes on poll 1..MaxReadyAt, or never (0).
MaxReadyAt == 3
\* wake_by_ref calls the generic inner future makes per Pending: 0..MaxWakes.
MaxWakes == 2

Modulus == 2 ^ UsizeBits
UsizeMax == Modulus - 1
PollCap == UsizeMax + 1 + ExtraPolls
\* Outputs of the wrapped futures; a negative one stands for an output that
\* is itself an error (an inner Err(e)).
Values == {-1, 7, 42}
AgainModes == {"panic", "pending", "ready"}

\* ------------------------------------------------------- result values ----
Pending == [tag |-> "Pending", val |-> 0]
Ready(v) == [tag |-> "Ready", val |-> v]
Ok(v) == [tag |-> "Ok", val |-> v]
\* Err(Aborted { num_polls })
Aborted(num_polls) == [tag |-> "Err", val |-> num_polls]
Panic == [tag |-> "Panic", val |-> 0]
NoResult == [tag |-> "None", val |-> 0]

IsReady(out) == out.tag \in {"Ready", "Ok", "Err"}

\* Option<T>
Some(v) == [some |-> TRUE, v |-> v]
None == [some |-> FALSE, v |-> 0]

\* usize `+= 1`
Incr(n) == (n + 1) % Modulus

\* AtomicUsize::fetch_add(1) and fetch_sub(1): both wrap
FetchAdd(n) == (n + 1) % Modulus
FetchSub(n) == (n + Modulus - 1) % Modulus

\* -------------------------------------------------------------- Never ----
never == [type |-> "Never"]

Never_poll_NoWake(me) ==
    [fut |-> me, out |-> Pending, wakes |-> 0, own |-> 0, fwd |-> 0]

Never_poll(me) ==
    [fut |-> me, out |-> Pending, wakes |-> 1, own |-> 1, fwd |-> 0]

\* -------------------------------------------------------------- After ----
after(value, max_polls) ==
    [type |-> "After", value |-> Some(value), num_polls |-> 0,
     max_polls |-> max_polls]

After_ready_Late(me) == me.num_polls > me.max_polls

After_ready_Early(me) == me.num_polls + 1 >= me.max_polls

After_ready(me) == me.num_polls >= me.max_polls

\* As After_poll, but reading the value without take(): it stays Some.
After_poll_NoTake(me) ==
    IF After_ready(me)
    THEN [fut |-> me, out |-> Ready(me.value.v), wakes |-> 0, own |-> 0,
          fwd |-> 0]
    ELSE [fut |-> [me EXCEPT !.num_polls = Incr(me.num_polls)],
          out |-> Pending, wakes |-> 1, own |-> 1, fwd |-> 0]

After_poll(me) ==
    IF After_ready(me)
    THEN \* me.value.take().unwrap()
         IF me.value.some
         THEN [fut |-> [me EXCEPT !.value = None], out |-> Ready(me.value.v),
               wakes |-> 0, own |-> 0, fwd |-> 0]
         ELSE [fut |-> me, out |-> Panic, wakes |-> 0, own |-> 0, fwd |-> 0]
    ELSE [fut |-> [me EXCEPT !.num_polls = Incr(me.num_polls)],
          out |-> Pending, wakes |-> 1, own |-> 1, fwd |-> 0]

\* ------------------------------------------- a generic inner future ----
\* Any `T: Future` handed to abort(): Ready(value) on poll number ready_at
\* (never when ready_at = 0), `wakes` wake-ups on each Pending, and one of
\* the behaviours the Future contract allows when polled after completion.
script(value, ready_at, wakes, again) ==
    [type |-> "Script", value |-> value, ready_at |-> ready_at,
     wakes |-> wakes, again |-> again, polled |-> 0]

Script_done(me) == me.ready_at # 0 /\ me.polled >= me.ready_at

Script_poll(me) ==
    LET nxt == [me EXCEPT !.polled = me.polled + 1] IN
    IF Script_done(me)
    THEN CASE me.again = "panic" ->
                [fut |-> nxt, out |-> Panic, wakes |-> 0, own |-> 0, fwd |-> 0]
           [] me.again = "pending" ->
                [fut |-> nxt, out |-> Pending, wakes |-> me.wakes,
                 own |-> me.wakes, fwd |-> 0]
           [] OTHER ->
                [fut |-> nxt, out |-> Ready(me.value), wakes |-> 0, own |-> 0,
                 fwd |-> 0]
    ELSE IF nxt.polled = me.ready_at
    THEN [fut |-> nxt, out |-> Ready(me.value), wakes |-> 0, own |-> 0,
          fwd |-> 0]
    ELSE [fut |-> nxt, out |-> Pending, wakes |-> me.wakes, own |-> me.wakes,
          fwd |-> 0]

\* ------------------------------- do_something of the crate's examples ----
\* `async fn do_something(state: &State)`. `state` is the State the future
\* borrows: nothing else touches it while the future lives, so the model
\* keeps the referent with the reference. `guarded` tells the fixed example
\* (count is decremented by the drop of an IncrementGuard) from the first
\* one (count is decremented by a statement after the await). pc is the
\* position of the async fn: "start", "yielded" (suspended in
\* do_more's yield_now().await, the guard alive if there is one), "done".
do_something(state, guarded) ==
    [type |-> "DoSomething", state |-> state, guarded |-> guarded,
     pc |-> "start"]

do_something_poll(me) ==
    CASE me.pc = "start" ->
            \* increment_count(), then do_more: assert!, yield_now().await
            LET st == [me.state EXCEPT !.count = FetchAdd(me.state.count)] IN
            IF st.count > 0
            THEN [fut |-> [me EXCEPT !.state = st, !.pc = "yielded"],
                  out |-> Pending, wakes |-> 1, own |-> 1, fwd |-> 0]
            ELSE [fut |-> [me EXCEPT !.state = st, !.pc = "done"],
                  out |-> Panic, wakes |-> 0, own |-> 0, fwd |-> 0]
      [] me.pc = "yielded" ->
            \* yield_now() is ready; decrement_count() or the guard's drop
            [fut |-> [me EXCEPT !.state.count = FetchSub(me.state.count),
                               !.pc = "done"],
             out |-> Ready(0), wakes |-> 0, own |-> 0, fwd |-> 0]
      [] OTHER ->
            \* an async fn resumed after completion panics
            [fut |-> me, out |-> Panic, wakes |-> 0, own |-> 0, fwd |-> 0]

\* Dropping the suspended future drops its locals: the IncrementGuard.
do_something_drop(me) ==
    IF me.guarded /\ me.pc = "yielded"
    THEN [me EXCEPT !.state.count = FetchSub(me.state.count)]
    ELSE me

\* future.poll(cx) on the wrapped future
Inner_poll(f) ==
    CASE f.type = "Never" -> Never_poll(f)
      [] f.type = "After" -> After_poll(f)
      [] f.type = "DoSomething" -> do_something_poll(f)
      [] OTHER -> Script_poll(f)

\* drop of the wrapped future
Inner_drop(f) ==
    IF f.type = "DoSomething" THEN do_something_drop(f) ELSE f

\* -------------------------------------------------------------- Abort ----
abort(future, max_polls) ==
    [type |-> "Abort", num_polls |-> 0, max_polls |-> max_polls,
     future |-> future]

Abort_limit_Late(me) == me.num_polls > me.max_polls

Abort_limit_Early(me) == me.num_polls + 1 >= me.max_polls

Abort_limit(me) == me.num_polls >= me.max_polls

\* As Abort_poll, but counting a forwarded poll only when it was Pending.
Abort_poll_CountPending(me) ==
    IF Abort_limit(me)
    THEN [fut |-> me, out |-> Aborted(me.num_polls), wakes |-> 0, own |-> 0,
          fwd |-> 0]
    ELSE LET r == Inner_poll(me.future)
             mine == [me EXCEPT !.future = r.fut] IN
         CASE r.out.tag = "Ready" ->
                [fut |-> mine, out |-> Ok(r.out.val), wakes |-> r.wakes,
                 own |-> 0, fwd |-> 1]
           [] r.out.tag = "Pending" ->
                [fut |-> [mine EXCEPT !.num_polls = Incr(me.num_polls)],
                 out |-> Pending, wakes |-> r.wakes, own |-> 0, fwd |-> 1]
           [] OTHER ->
                [fut |-> mine, out |-> Panic, wakes |-> r.wakes, own |-> 0,
                 fwd |-> 1]

\* As Abort_poll, but waking the task itself when the inner poll is Pending.
Abort_poll_OwnWake(me) ==
    IF Abort_limit(me)
    THEN [fut |-> me, out |-> Aborted(me.num_polls), wakes |-> 0, own |-> 0,
          fwd |-> 0]
    ELSE LET counted == [me EXCEPT !.num_polls = Incr(me.num_polls)]
             r == Inner_poll(me.future)
             mine == [counted EXCEPT !.future = r.fut]
         IN  CASE r.out.tag = "Ready" ->
                    [fut |-> mine, out |-> Ok(r.out.val), wakes |-> r.wakes,
                     own |-> 0, fwd |-> 1]
               [] r.out.tag = "Pending" ->
                    [fut |-> mine, out |-> Pending, wakes |-> r.wakes + 1,
                     own |-> 1, fwd |-> 1]
               [] OTHER ->
                    [fut |-> mine, out |-> Panic, wakes |-> r.wakes,
                     own |-> 0, fwd |-> 1]

\* As Abort_poll, but reporting an inner error output as Aborted.
Abort_poll_FlattenErr(me) ==
    IF Abort_limit(me)
    THEN [fut |-> me, out |-> Aborted(me.num_polls), wakes |-> 0, own |-> 0,
          fwd |-> 0]
    ELSE LET counted == [me EXCEPT !.num_polls = Incr(me.num_polls)]
             r == Inner_poll(me.future)
             mine == [counted EXCEPT !.future = r.fut]
         IN  [fut |-> mine,
              out |-> CASE r.out.tag = "Ready" /\ r.out.val < 0 ->
                             Aborted(mine.num_polls)
                        [] r.out.tag = "Ready" -> Ok(r.out.val)
                        [] r.out.tag = "Pending" -> Pending
                        [] OTHER -> Panic,
              wakes |-> r.wakes, own |-> 0, fwd |-> 1]

Abort_poll(me) ==
    IF Abort_limit(me)
    THEN [fut |-> me, out |-> Aborted(me.num_polls), wakes |-> 0, own |-> 0,
          fwd |-> 0]
    ELSE LET counted == [me EXCEPT !.num_polls = Incr(me.num_polls)]
             r == Inner_poll(me.future)
             mine == [counted EXCEPT !.future = r.fut]
         IN  [fut |-> mine,
              out |-> CASE r.out.tag = "Ready" -> Ok(r.out.val)
                        [] r.out.tag = "Pending" -> Pending
                        [] OTHER -> Panic,
              wakes |-> r.wakes, own |-> 0, fwd |-> 1]

\* As Abort_drop, but the wrapped future is leaked instead of dropped.
Abort_drop_Leak(me) == me

\* Abort owns `future` by value: dropping the wrapper drops the future.
Abort_drop(me) == [me EXCEPT !.future = Inner_drop(me.future)]

\* ----------------------------------------------------------- executor ----
\* task      : the future the executor owns, in its current state
\* spawned   : that future as its constructor returned it
\* scheduled : the waker ran since the task was last polled (or it is new)
\* result    : what the awaiting caller got: the first Ready output
\* panicked  : a poll unwound; the task is gone
\* log       : one entry per poll of the task, oldest first
\* dropped   : the caller dropped the task after taking its result
VARIABLES task, spawned, scheduled, result, panicked, log, dropped

vars == <<task, spawned, scheduled, result, panicked, log, dropped>>

Poll(f) ==
    IF f.type = "Abort" THEN Abort_poll(f) ELSE Inner_poll(f)

Drop(f) ==
    IF f.type = "Abort" THEN Abort_drop(f) ELSE Inner_drop(f)

\* State::default()
State_default == [count |-> 0]

Inners ==
    {never}
      \cup {do_something(State_default, g) : g \in BOOLEAN}
      \cup {after(v, m) : v \in Values, m \in 0..UsizeMax}
      \cup {script(v, k, w, a) : v \in Values, k \in 0..MaxReadyAt,
                                 w \in 0..MaxWakes, a \in AgainModes}

Tasks ==
    {never}
      \cup {do_something(State_default, g) : g \in BOOLEAN}
      \cup {after(v, m) : v \in Values, m \in 0..UsizeMax}
      \cup {abort(f, m) : f \in Inners, m \in 0..UsizeMax}

Init ==
    /\ task \in Tasks
    /\ spawned = task
    /\ scheduled = TRUE
    /\ result = NoResult
    /\ panicked = FALSE
    /\ log = <<>>
    /\ dropped = FALSE

\* One poll of the task and what the executor does with its outcome.
DoPoll ==
    LET r == Poll(task) IN
    /\ task' = r.fut
    /\ UNCHANGED <<spawned, dropped>>
    /\ log' = Append(log, [out |-> r.out, wakes |-> r.wakes, own |-> r.own,
                           fwd |-> r.fwd])
    /\ panicked' = (r.out = Panic)
    /\ result' = IF result = NoResult /\ IsReady(r.out) THEN r.out ELSE result
    /\ scheduled' = (r.out = Pending /\ r.wakes > 0)

CanPoll == ~panicked /\ ~dropped /\ Len(log) < PollCap

\* The executor polls a task that was woken (or just spawned).
ExecutorPoll ==
    /\ CanPoll
    /\ result = NoResult
    /\ scheduled
    /\ DoPoll

\* A caller polls a pending task although nothing woke it.
SpuriousPoll ==
    /\ CanPoll
    /\ result = NoResult
    /\ ~scheduled
    /\ DoPoll

\* A caller polls the task again after it returned Ready.
PollAfterCompletion ==
    /\ CanPoll
    /\ result # NoResult
    /\ DoPoll

\* The caller has its result and drops the task.
DropTask ==
    /\ result # NoResult
    /\ ~panicked
    /\ ~dropped
    /\ task' = Drop(task)
    /\ dropped' = TRUE
    /\ UNCHANGED <<spawned, scheduled, result, log>>
    /\ UNCHANGED panicked

Next == ExecutorPoll \/ SpuriousPoll \/ PollAfterCompletion \/ DropTask

Spec == Init /\ [][Next]_vars

FairSpec == Spec /\ WF_vars(ExecutorPoll)

\* ------------------------------------------------------ claim helpers ----
Polls == 1..Len(log)

IsAbort == spawned.type = "Abort"
IsAbortOf(kind) == IsAbort /\ spawned.future.type = kind
IsAfter == spawned.type = "After"
IsNever == spawned.type = "Never"

Done == result # NoResult

\* The value a future was constructed with.
GivenValue(f) == IF f.type = "After" THEN f.value.v ELSE f.value

\* The last poll made, and how many of the first n polls were forwarded.
LastPoll == log[Len(log)]
Forwarded(n) == Cardinality({i \in 1..n : log[i].fwd = 1})
PollStep == Len(log') = Len(log) + 1

\* state.count() as main reads it
StateCount ==
    IF IsAbort THEN task.future.state.count ELSE task.state.count

\* C1: abort(never(), max_polls), driven by an executor that re-polls the
\* task whenever it was woken, ends with Err(Aborted{num_polls: max_polls}):
\* a result is eventually produced, and it is never Ok nor another count.
C1_AbortNeverIsCutAtLimit ==
    /\ [](IsAbortOf("Never") /\ Done => result = Aborted(spawned.max_polls))
    /\ [](IsAbortOf("Never") => <>Done)

C1_Witness ==
    /\ IsAbortOf("Never")
    /\ spawned.max_polls = 3
    /\ Len(log) = 4
    /\ result = Aborted(3)

\* C2: abort(after(X, max_polls), max_polls + 1) yields Ok(X): the After
\* future gets its (max_polls + 1)-th poll, on which it completes, and no
\* poll before the result faults.
C2_AfterCompletesBeforeLimit ==
    IsAbortOf("After") /\ spawned.max_polls = spawned.future.max_polls + 1 =>
        /\ Done => result = Ok(spawned.future.value.v)
        /\ Done => log[spawned.max_polls].out = result
        /\ ~Done => ~panicked

C2_Witness ==
    /\ IsAbortOf("After")
    /\ spawned.future.max_polls = 2
    /\ spawned.max_polls = 3
    /\ result = Ok(42)
    /\ Len(log) = 3

\* C3: abort(after(X, max_polls), max_polls) yields
\* Err(Aborted{num_polls: max_polls}) and never returns X: when the abort
\* fires the After future has had exactly max_polls polls, all Pending, and
\* still holds X.
C3_AfterAbortedOneStepEarly ==
    IsAbortOf("After") /\ spawned.max_polls = spawned.future.max_polls =>
        LET m == spawned.max_polls IN
        /\ \A i \in Polls : log[i].out.tag # "Ok"
        /\ \A i \in Polls : i <= m => log[i].out = Pending /\ log[i].fwd = 1
        /\ Done => /\ result = Aborted(m)
                   /\ log[m + 1].out = result
                   /\ log[m + 1].fwd = 0
                   /\ task.future.num_polls = m
                   /\ task.future.value = Some(spawned.future.value.v)

C3_Witness ==
    /\ IsAbortOf("After")
    /\ spawned.future.max_polls = 3
    /\ spawned.max_polls = 3
    /\ result = Aborted(3)
    /\ Len(log) = 4

\* C4: the first poll of abort(inner, 0) returns
\* Ready(Err(Aborted{num_polls: 0})) without polling the inner computation:
\* nothing is forwarded, the inner state is as constructed and the waker is
\* not invoked.
C4_ZeroLimitNeverPollsInner ==
    IsAbort /\ spawned.max_polls = 0 /\ Len(log) >= 1 =>
        /\ log[1].out = Aborted(0)
        /\ log[1].fwd = 0
        /\ log[1].wakes = 0
        /\ task.future = spawned.future

C4_Witness ==
    /\ IsAbortOf("Script")
    /\ spawned.future.ready_at = 1
    /\ spawned.max_polls = 0
    /\ Len(log) = 1
    /\ result = Aborted(0)

\* C5: when the inner computation returns Ready(value) on its very first
\* poll and max_polls >= 1, the first poll of abort(inner, max_polls)
\* returns Ready(Ok(value)) with that value.
C5_ReadyAtOnceIsOk ==
    LET first == Inner_poll(spawned.future) IN
    IsAbort /\ spawned.max_polls >= 1 /\ Len(log) >= 1
            /\ first.out.tag = "Ready" =>
        /\ log[1].out = Ok(GivenValue(spawned.future))
        /\ first.out.val = GivenValue(spawned.future)
        /\ result = log[1].out

C5_Witness ==
    /\ IsAbortOf("Script")
    /\ spawned.future.ready_at = 1
    /\ spawned.future.value = 42
    /\ spawned.max_polls = 1
    /\ Len(log) = 1
    /\ result = Ok(42)

\* C6: polled directly, after(v, max_polls) returns Pending on each of the
\* polls 1..max_polls, invoking the waker exactly once on each, and
\* Ready(v) on poll max_polls + 1; it is never Ready earlier and never
\* returns another value.
C6_AfterReadyOnPollMaxPlusOne ==
    IsAfter =>
        LET m == spawned.max_polls IN
        \A i \in Polls :
            /\ i <= m => log[i].out = Pending /\ log[i].wakes = 1
            /\ i = m + 1 => log[i].out = Ready(spawned.value.v)
                            /\ log[i].wakes = 0
            /\ log[i].out.tag = "Ready" => i = m + 1

C6_Witness ==
    /\ IsAfter
    /\ spawned.max_polls = 3
    /\ spawned.value.v = 42
    /\ Len(log) = 4
    /\ \A i \in 1..3 : log[i].out = Pending /\ log[i].wakes = 1
    /\ log[4].out = Ready(42)

\* C7: every poll of a Never future, however many came before, returns
\* Pending and invokes the waker exactly once; it never returns Ready. The
\* same holds of a Never polled through an Abort wrapper.
C7_NeverIsPendingAndWakes ==
    /\ IsNever =>
          /\ \A i \in Polls : log[i].out = Pending /\ log[i].wakes = 1
          /\ ~Done /\ ~panicked
          /\ Len(log) > 0 => scheduled
    /\ IsAbortOf("Never") =>
          \A i \in Polls :
              log[i].fwd = 1 => log[i].out = Pending /\ log[i].wakes = 1

C7_Witness ==
    /\ IsNever
    /\ Len(log) = PollCap
    /\ log[PollCap].out = Pending
    /\ log[PollCap].wakes = 1

\* C8: in every reachable state of an Abort wrapper, whatever the inner
\* computation and the polls made, num_polls <= max_polls; num_polls never
\* decreases from one poll to the next; and every Aborted value produced
\* carries num_polls <= max_polls.
C8_AbortCounterBoundedMonotone ==
    /\ [](IsAbort =>
            /\ task.num_polls <= task.max_polls
            /\ task.max_polls = spawned.max_polls
            /\ \A i \in Polls :
                  log[i].out.tag = "Err" => log[i].out.val <= task.max_polls)
    /\ [][IsAbort => task'.num_polls >= task.num_polls]_vars

C8_Witness ==
    /\ IsAbortOf("Script")
    /\ spawned.max_polls = 2
    /\ task.num_polls = 2
    /\ Len(log) = 4
    /\ log[3].out = Aborted(2)
    /\ log[4].out = Aborted(2)

C10_AfterValueTakenOnce ==
    IsAfter =>
        LET m == spawned.max_polls IN
        /\ ~Done => task.value = spawned.value /\ task.value.some
        /\ Done => task.value = None /\ result = Ready(spawned.value.v)
        /\ \A i \in Polls : i > m + 1 => log[i].out = Panic
        /\ Cardinality({i \in Polls : log[i].out.tag = "Ready"}) <= 1
        /\ panicked => Done /\ Len(log) = m + 2

C10_Witness ==
    /\ IsAfter
    /\ spawned.max_polls = 1
    /\ Len(log) = 3
    /\ log[2].out = Ready(42)
    /\ log[3].out = Panic
    /\ task.value = None
    /\ panicked

\* C11: in the first doc example (do_something increments state.count, awaits
\* a future that yields once, then decrements), abort(do_something(&state), 1)
\* results in Err(Aborted{num_polls: 1}) with state.count = 1: the inner
\* computation stays at its first suspension point, its decrement never
\* runs, whatever the caller does with the wrapper afterwards.
C11_AbortedExampleLeavesCount ==
    IsAbortOf("DoSomething") /\ ~spawned.future.guarded
                             /\ spawned.max_polls = 1 =>
        /\ Len(log) >= 1 => log[1].out = Pending /\ log[1].fwd = 1
        /\ Len(log) >= 1 => StateCount = 1 /\ task.future.pc = "yielded"
        /\ Done => result = Aborted(1)
        /\ \A i \in Polls : i >= 2 => log[i].fwd = 0

C11_Witness ==
    /\ IsAbortOf("DoSomething")
    /\ ~spawned.future.guarded
    /\ spawned.max_polls = 1
    /\ result = Aborted(1)
    /\ Len(log) = 2
    /\ StateCount = 1
    /\ ~dropped

\* C12: in the fixed doc example (do_something holds an IncrementGuard whose
\* drop decrements state.count), once abort(do_something(&state), 1) has
\* produced Err(Aborted) and the wrapper has been dropped, the wrapped
\* future and its guard are dropped with it and state.count is 0 again;
\* until the drop the count is still 1.
C12_GuardRestoresCountOnDrop ==
    IsAbortOf("DoSomething") /\ spawned.future.guarded
                             /\ spawned.max_polls = 1 =>
        /\ Done => result = Aborted(1)
        /\ dropped => StateCount = 0
        /\ Len(log) >= 1 /\ ~dropped => StateCount = 1

C12_Witness ==
    /\ IsAbortOf("DoSomething")
    /\ spawned.future.guarded
    /\ spawned.max_polls = 1
    /\ result = Aborted(1)
    /\ dropped
    /\ StateCount = 0
    /\ task.future.pc = "yielded"

\* C13: at every point in the life of an Abort wrapper num_polls equals the
\* number of polls it has forwarded to the inner computation: a forwarded
\* poll increments it by exactly 1 and nothing else changes it. So the
\* num_polls of an Aborted value is the number of polls the inner
\* computation received (its own count of polls, where it keeps one).
C13_CounterCountsForwardedPolls ==
    /\ [](IsAbort =>
            /\ task.num_polls = Forwarded(Len(log))
            /\ spawned.future.type = "Script" =>
                   task.future.polled = task.num_polls
            /\ \A i \in Polls : log[i].out.tag = "Err" =>
                   log[i].out.val = Forwarded(i))
    /\ [][IsAbort =>
            task'.num_polls =
                task.num_polls + (IF PollStep THEN log'[Len(log')].fwd ELSE 0)
         ]_vars

C13_Witness ==
    /\ IsAbortOf("Script")
    /\ spawned.future.ready_at = 0
    /\ spawned.max_polls = 3
    /\ task.future.polled = 3
    /\ task.num_polls = 3
    /\ Len(log) = 4
    /\ LastPoll.out = Aborted(3)

\* C14: once the num_polls of an Abort wrapper has reached max_polls, every
\* later poll of it returns Ready(Err(Aborted{num_polls: max_polls})) and
\* changes nothing: the inner computation is not polled, num_polls is not
\* incremented and the waker is not invoked.
C14_AtLimitPollsOnlyAbort ==
    [][IsAbort /\ task.num_polls = task.max_polls /\ PollStep =>
          /\ task' = task
          /\ log'[Len(log')].out = Aborted(task.max_polls)
          /\ log'[Len(log')].fwd = 0
          /\ log'[Len(log')].wakes = 0
          /\ result' \in {result, Aborted(task.max_polls)}
          /\ ~panicked'
      ]_vars

C14_Witness ==
    /\ IsAbortOf("After")
    /\ spawned.future.max_polls = 5
    /\ spawned.max_polls = 2
    /\ Len(log) = 4
    /\ log[3].out = Aborted(2)
    /\ LastPoll.out = Aborted(2)
    /\ LastPoll.fwd = 0
    /\ task.future.num_polls = 2
    /\ task.future.value.some

\* C15: for an inner computation that asks for a wake-up on each Pending and
\* returns Ready(v) on its k-th poll (k >= 1), abort(inner, m) results in
\* Ok(v) if and only if k <= m and in Err(Aborted{num_polls: m}) if and
\* only if k > m; k = m gives Ok(v). The result comes with poll
\* min(k, m + 1) of the wrapper, and until then the task stays scheduled.
C15_OkIffReadyWithinLimit ==
    LET f == spawned.future
        wakesUp == f.type = "After" \/ (f.type = "Script" /\ f.wakes >= 1)
        k == IF f.type = "After" THEN f.max_polls + 1 ELSE f.ready_at
        m == spawned.max_polls
        v == GivenValue(f)
    IN  IsAbort /\ f.type \in {"After", "Script"} /\ wakesUp /\ k >= 1 =>
            /\ Done => (result = Ok(v) <=> k <= m)
            /\ Done => (result = Aborted(m) <=> k > m)
            /\ Done => log[IF k <= m THEN k ELSE m + 1].out = result
            /\ ~Done => Len(log) < k /\ Len(log) <= m /\ ~panicked
            /\ ~Done => scheduled

C15_Witness ==
    /\ IsAbortOf("Script")
    /\ spawned.future.wakes = 1
    /\ spawned.future.ready_at = 3
    /\ spawned.max_polls = 3
    /\ Len(log) = 3
    /\ result = Ok(42)

C15_WitnessAborted ==
    /\ IsAbortOf("Script")
    /\ spawned.future.wakes = 1
    /\ spawned.future.ready_at = 3
    /\ spawned.max_polls = 2
    /\ Len(log) = 3
    /\ result = Aborted(2)

\* C16: an Abort wrapper never invokes the waker itself. During any one poll
\* of it the waker is invoked exactly as often as the inner computation
\* invoked it in the forwarded poll, and not at all when the poll is not
\* forwarded; and the wrapper returns Pending if and only if the poll was
\* forwarded and the inner computation returned Pending.
C16_AbortAddsNoWake ==
    [][IsAbort /\ PollStep =>
          LET inner == Inner_poll(task.future)
              last == log'[Len(log')]
              forwarded == task'.future # task.future \/ last.fwd = 1
          IN  /\ last.own = 0
              /\ last.fwd = 1 => last.wakes = inner.wakes
                                 /\ task'.future = inner.fut
              /\ last.fwd = 0 => last.wakes = 0 /\ task'.future = task.future
              /\ last.out = Pending <=> (forwarded /\ inner.out = Pending)
              /\ scheduled' = (last.out = Pending /\ inner.wakes > 0)
      ]_vars

C16_Witness ==
    /\ IsAbortOf("Script")
    /\ spawned.future.wakes = 2
    /\ spawned.future.ready_at = 0
    /\ spawned.max_polls = 2
    /\ Len(log) = 3
    /\ log[1].out = Pending /\ log[1].wakes = 2 /\ log[1].own = 0
    /\ log[2].out = Pending /\ log[2].wakes = 2
    /\ log[3].out = Aborted(2) /\ log[3].wakes = 0

C16_WitnessSilentInner ==
    /\ IsAbortOf("Script")
    /\ spawned.future.wakes = 0
    /\ spawned.max_polls = 2
    /\ Len(log) = 1
    /\ log[1].out = Pending
    /\ log[1].wakes = 0
    /\ ~scheduled

\* C17: whenever an Abort wrapper returns Ready(Ok(v)), v is the output the
\* inner computation returned as Ready on that same forwarded poll,
\* unchanged, also when that output is itself an error value; and
\* Err(Aborted) comes only from the poll-limit check, never from an inner
\* outcome.
C17_InnerOutputPassedThrough ==
    [][IsAbort /\ PollStep =>
          LET inner == Inner_poll(task.future)
              last == log'[Len(log')]
          IN  /\ last.out.tag = "Ok" =>
                    last.fwd = 1 /\ inner.out = Ready(last.out.val)
              /\ last.fwd = 1 /\ inner.out.tag = "Ready" =>
                    last.out = Ok(inner.out.val)
              /\ last.out.tag = "Err" =>
                    /\ task.num_polls >= task.max_polls
                    /\ last.out.val = task.num_polls
                    /\ last.fwd = 0
                    /\ task'.future = task.future
      ]_vars

C17_Witness ==
    /\ IsAbortOf("Script")
    /\ spawned.future.value = -1
    /\ spawned.future.ready_at = 2
    /\ spawned.max_polls = 3
    /\ Len(log) = 2
    /\ log[1].out = Pending
    /\ result = Ok(-1)

\* The inner futures that ask for a wake-up whenever they return Pending.
WakesOnPending(f) ==
    \/ f.type \in {"Never", "After", "DoSomething"}
    \/ f.type = "Script" /\ f.wakes >= 1


\* C18: under an executor that fairly re-polls a woken task, and for an
\* inner computation that asks for a wake-up whenever it returns Pending,
\* abort(inner, max_polls) eventually produces a terminal result (Ok or
\* Err(Aborted)), with at most max_polls + 1 polls of the wrapper and at
\* most max_polls polls of the inner computation, also when the inner
\* computation never completes.
C18_AbortTerminatesWithinLimit ==
    LET bounded == IsAbort /\ WakesOnPending(spawned.future)
        m == spawned.max_polls
    IN  /\ [](bounded => <>Done)
        /\ [](bounded =>
                /\ ~Done => Len(log) <= m /\ scheduled /\ ~panicked
                /\ Done => \E i \in Polls : i <= m + 1 /\ log[i].out = result
                /\ Done => result.tag \in {"Ok", "Err"}
                /\ Forwarded(Len(log)) <= m)

C18_Witness ==
    /\ IsAbortOf("Never")
    /\ spawned.max_polls = UsizeMax
    /\ Len(log) = UsizeMax + 1
    /\ Forwarded(Len(log)) = UsizeMax
    /\ result = Aborted(UsizeMax)

\* The After future of the task, polled directly or through Abort.
HasAfter == IsAfter \/ IsAbortOf("After")
AfterOf(f) == IF f.type = "After" THEN f ELSE f.future


\* C19: the `num_polls += 1` of Abort::poll and of After::poll never
\* overflows, for max_polls up to the largest usize and any polls made: an
\* increment happens only while num_polls < max_polls and leaves
\* num_polls one larger; an After has num_polls <= max_polls in every
\* reachable state.
C19_CountersNeverOverflow ==
    /\ [](HasAfter => AfterOf(task).num_polls <= AfterOf(task).max_polls
                      /\ AfterOf(task).max_polls <= UsizeMax)
    /\ [][HasAfter /\ AfterOf(task').num_polls # AfterOf(task).num_polls =>
             /\ AfterOf(task).num_polls < AfterOf(task).max_polls
             /\ AfterOf(task').num_polls = AfterOf(task).num_polls + 1
         ]_vars
    /\ [][IsAbort /\ task'.num_polls # task.num_polls =>
             /\ task.num_polls < task.max_polls
             /\ task'.num_polls = task.num_polls + 1
             /\ task'.num_polls <= UsizeMax
         ]_vars

C19_Witness ==
    /\ IsAbortOf("After")
    /\ spawned.max_polls = UsizeMax
    /\ spawned.future.max_polls = UsizeMax
    /\ task.num_polls = UsizeMax
    /\ task.future.num_polls = UsizeMax
    /\ Len(log) = UsizeMax + 2
    /\ LastPoll.out = Aborted(UsizeMax)

====
